---- MODULE Spec2Model ----
(***************************************************************************)
(* Prefix-notation calculator of simonask/exceptions-versus-results.       *)
(*                                                                         *)
(* Two recursive-descent parsers evaluate the same grammar                 *)
(*     expression := '(' expression ')' | digit+ | op expression expression*)
(* ParserWithExceptions (prefix E_) aborts by throwing Error{kind} up to   *)
(* the try/catch in execute; ParserWithResults (prefix R_) returns a       *)
(* Result<T> from every rule and tests is_error at every call site.        *)
(*                                                                         *)
(* A caller runs execute of the first variant and then execute of the      *)
(* second variant on one program string.  The recursion of each parser is  *)
(* an explicit stack of frames; the leaf routines (peek, get_char,         *)
(* skip_whitespace, number, operation, expect_char) are operators over the *)
(* program and the cursor offset p (0 .. Len(program), end = Len(program)).*)
(***************************************************************************)
EXTENDS Integers, Sequences, FiniteSets, TLC

\* Length up to which every string over Alphabet is an input.
MaxLen == 4

\* Depth of the call stack the model explores before it stops pushing frames.
StackLimit == 40

----------------------------------------------------------------------------
(* Characters.  A character is a one-character string; NUL is the value 0  *)
(* that peek returns at end-of-input.                                      *)

NUL == "NUL"

Alphabet == {"(", ")", "+", "/", "0", "1", " "}

Corpus ==
    { <<"+", " ", "3", " ", "4">>,
      <<"*", " ", "(", "+", " ", "1", " ", "2", ")", " ", "5">>,
      <<"-", " ", "1", "0", " ", "(", "/", " ", "2", "0", " ", "4", ")">>,
      <<"+", " ", "3">>,
      <<"&", " ", "1", " ", "2">>,
      <<"(", "+", " ", "1", " ", "2", " ">>,
      <<"(", "+", " ", "1", " ", "2", " ", "x">>,
      <<"(", "1", " ", "2", ")">>,
      <<"/", " ", "-", " ", "0", " ", "7", " ", "2">>,
      <<"/", " ", "7", " ", "-", " ", "0", " ", "2">>,
      <<"-", " ", "2", " ", "9">>,
      <<"*", "\t", "6", "\n", "7", " ", "x", "y">>,
      <<"/", " ", "1", " ", "0">>,
      <<"+", " ", "1", " ", "(", "/", " ", "5", " ", "0", ")">>,
      <<" ", "\t", "\n">>,
      <<"+", " ", "1", " ", "x">>,
      <<"(", "(", "4", "2", ")", ")", ")">>,
      <<"+", " ", "(", "*", " ", "2", " ", "3", ")", " ", "(", "-", " ", "4">> }

Inputs == UNION {[1..n -> Alphabet] : n \in 0..MaxLen} \cup Corpus

ErrorKind == {"InvalidOperator", "InvalidCharacter", "UnexpectedEOF"}

Op == {"Add", "Sub", "Mul", "Div"}

\* What a division by zero does on the machine the program was built for:
\* a trap (x86-64), quotient 0 (AArch64), quotient -1 (RISC-V).
DivByZero == {"trap", "zero", "ones"}

DigitChars == <<"0", "1", "2", "3", "4", "5", "6", "7", "8", "9">>

isdigit(c) == \E i \in 1..10 : DigitChars[i] = c

iswspace(c) == c \in {" ", "\t", "\n", "\r", "\f"}

\* c - '0'
DigitValue(c) == (CHOOSE i \in 1..10 : DigitChars[i] = c) - 1

\* C++ integer division, which truncates toward zero (b # 0).
Abs(a) == IF a < 0 THEN -a ELSE a
TruncDiv(a, b) ==
    IF (a < 0) = (b < 0) THEN Abs(a) \div Abs(b) ELSE -(Abs(a) \div Abs(b))

----------------------------------------------------------------------------
VARIABLES
    program,    \* the std::string handed to execute
    phase,      \* "E": first variant runs, "R": second variant runs, "done"
    div0,       \* what x / 0 does in this build; "unobserved" until it happens
    e_p,        \* ParserWithExceptions::Parser::p - program.data()
    e_stack,    \* call stack of the first variant
    e_ret,      \* value returned by the call that just ended
    e_status,   \* "idle", "running", "returned", "crashed"
    e_result,   \* what execute returned
    e_class,    \* "none", "Ok", or the kind of the Error thrown
    e_calls,    \* number of calls of expression
    e_applied,  \* number of operators applied
    r_p,        \* ParserWithResults::Parser::p - program.data()
    r_stack,    \* call stack of the second variant
    r_ret,      \* Result returned by the call that just ended
    r_status,   \* "idle", "running", "returned", "crashed"
    r_result,   \* what execute returned
    r_class,    \* "none", "Ok", or result.error as execute saw it
    r_calls,    \* number of calls of expression
    r_applied,  \* number of operators applied
    r_raised    \* the ErrorKinds put into a fresh Result, in order

eVars == <<e_p, e_stack, e_ret, e_status, e_result, e_class, e_calls, e_applied>>

rVars == <<r_p, r_stack, r_ret, r_status, r_result, r_class, r_calls, r_applied, r_raised>>

vars == <<program, phase, div0, eVars, rVars>>

Frame(fn, pc) == [fn |-> fn, pc |-> pc, op |-> "none", left |-> 0]

Top(st) == st[Len(st)]
Pop(st) == SubSeq(st, 1, Len(st) - 1)
SetTop(st, f) == [st EXCEPT ![Len(st)] = f]

----------------------------------------------------------------------------
(* ParserWithExceptions: leaf routines.  Each returns a record whose exc   *)
(* is "none" or the kind of the Error thrown, with the cursor p after it.  *)

E_peek(s, p) == IF p = Len(s) THEN NUL ELSE s[p + 1]

\* get_char without the test for the end of the program.
E_get_char_unchecked(s, p) ==
    [exc |-> "none", val |-> IF p < Len(s) THEN s[p + 1] ELSE NUL, p |-> p + 1]

E_get_char(s, p) ==
    IF p = Len(s)
    THEN [exc |-> "UnexpectedEOF", p |-> p]
    ELSE [exc |-> "none", val |-> s[p + 1], p |-> p + 1]

RECURSIVE E_skip_whitespace(_, _)
E_skip_whitespace(s, p) ==
    IF iswspace(E_peek(s, p))
    THEN LET g == E_get_char(s, p)
         IN  IF g.exc # "none" THEN g ELSE E_skip_whitespace(s, g.p)
    ELSE [exc |-> "none", p |-> p]

RECURSIVE E_number_loop(_, _, _)
E_number_loop(s, p, result) ==
    IF isdigit(E_peek(s, p))
    THEN LET g == E_get_char(s, p)
         IN  IF g.exc # "none" THEN g
             ELSE E_number_loop(s, g.p, result * 10 + DigitValue(g.val))
    ELSE [exc |-> "none", val |-> result, p |-> p]

E_number(s, p) == E_number_loop(s, p, 0)

\* operation whose default case throws InvalidCharacter.
E_operation_invalid_character(s, p) ==
    LET g == E_get_char(s, p)
    IN  IF g.exc # "none" THEN g
        ELSE CASE g.val = "+" -> [exc |-> "none", val |-> "Add", p |-> g.p]
               [] g.val = "-" -> [exc |-> "none", val |-> "Sub", p |-> g.p]
               [] g.val = "*" -> [exc |-> "none", val |-> "Mul", p |-> g.p]
               [] g.val = "/" -> [exc |-> "none", val |-> "Div", p |-> g.p]
               [] OTHER -> [exc |-> "InvalidCharacter", p |-> g.p]

E_operation(s, p) ==
    LET g == E_get_char(s, p)
    IN  IF g.exc # "none" THEN g
        ELSE CASE g.val = "+" -> [exc |-> "none", val |-> "Add", p |-> g.p]
               [] g.val = "-" -> [exc |-> "none", val |-> "Sub", p |-> g.p]
               [] g.val = "*" -> [exc |-> "none", val |-> "Mul", p |-> g.p]
               [] g.val = "/" -> [exc |-> "none", val |-> "Div", p |-> g.p]
               [] OTHER -> [exc |-> "InvalidOperator", p |-> g.p]

\* expect_char that reports the end of the program as InvalidCharacter.
E_expect_char_remapped(s, p, c) ==
    LET g == E_get_char(s, p)
    IN  IF g.exc # "none" THEN [exc |-> "InvalidCharacter", p |-> g.p]
        ELSE IF g.val # c THEN [exc |-> "InvalidCharacter", p |-> g.p]
        ELSE g

E_expect_char(s, p, c) ==
    LET g == E_get_char(s, p)
    IN  IF g.exc # "none" THEN g
        ELSE IF g.val # c THEN [exc |-> "InvalidCharacter", p |-> g.p]
        ELSE g

\* The switch with the operands of Sub and Div exchanged.
E_apply_swapped(op, left, right) ==
    CASE op = "Add" -> left + right
      [] op = "Sub" -> right - left
      [] op = "Mul" -> left * right
      [] op = "Div" -> IF left = 0 THEN 0 ELSE TruncDiv(right, left)

\* The switch of inner_expression for a nonzero divisor.
E_apply(op, left, right) ==
    CASE op = "Add" -> left + right
      [] op = "Sub" -> left - right
      [] op = "Mul" -> left * right
      [] op = "Div" -> TruncDiv(left, right)

----------------------------------------------------------------------------
(* ParserWithExceptions: the recursion.                                    *)

\* throw Error{kind}: every frame up to the try block of execute is unwound.
E_throw(kind, p) ==
    /\ e_stack' = <<Frame("execute", "catch")>>
    /\ e_class' = kind
    /\ e_p' = p
    /\ UNCHANGED <<e_ret, e_status, e_result, e_applied>>

E_at(fn, pc) ==
    /\ phase = "E"
    /\ e_status = "running"
    /\ Top(e_stack).fn = fn
    /\ Top(e_stack).pc = pc

\* execute: Parser p{program}; try { return p.expression(); }
E_execute ==
    /\ phase = "E"
    /\ e_status = "idle"
    /\ e_status' = "running"
    /\ e_p' = 0
    /\ e_stack' = <<Frame("execute", "try"), Frame("expression", "start")>>
    /\ UNCHANGED <<e_ret, e_result, e_class, e_calls, e_applied>>
    /\ UNCHANGED <<program, phase, div0, rVars>>

\* expression, c == '(', without the get_char that consumes it.
E_expression_paren_unconsumed ==
    /\ E_at("expression", "start")
    /\ Len(e_stack) < StackLimit
    /\ LET w == E_skip_whitespace(program, e_p)
           c == E_peek(program, w.p)
       IN  /\ w.exc = "none"
           /\ c = "("
           /\ e_calls' = e_calls + 1
           /\ e_p' = w.p
           /\ e_stack' = Append(SetTop(e_stack, Frame("expression", "paren")),
                                Frame("expression", "start"))
           /\ UNCHANGED <<e_ret, e_status, e_result, e_class, e_applied>>
    /\ UNCHANGED <<program, phase, div0, rVars>>

\* expression, c == '(': get_char, skip_whitespace, call expression.
E_expression_paren ==
    /\ E_at("expression", "start")
    /\ Len(e_stack) < StackLimit
    /\ LET w == E_skip_whitespace(program, e_p)
           c == E_peek(program, w.p)
       IN  /\ w.exc = "none"
           /\ c = "("
           /\ LET g == E_get_char(program, w.p)
                  v == E_skip_whitespace(program, g.p)
              IN  /\ e_calls' = e_calls + 1
                  /\ IF g.exc # "none" THEN E_throw(g.exc, g.p)
                     ELSE /\ e_p' = v.p
                          /\ e_stack' = Append(SetTop(e_stack, Frame("expression", "paren")),
                                               Frame("expression", "start"))
                          /\ UNCHANGED <<e_ret, e_status, e_result, e_class, e_applied>>
    /\ UNCHANGED <<program, phase, div0, rVars>>

\* expression, c is a digit: return number().
E_expression_number ==
    /\ E_at("expression", "start")
    /\ LET w == E_skip_whitespace(program, e_p)
           c == E_peek(program, w.p)
       IN  /\ w.exc = "none"
           /\ c # "("
           /\ isdigit(c)
           /\ LET n == E_number(program, w.p)
              IN  /\ e_calls' = e_calls + 1
                  /\ IF n.exc # "none" THEN E_throw(n.exc, n.p)
                     ELSE /\ e_p' = n.p
                          /\ e_ret' = n.val
                          /\ e_stack' = Pop(e_stack)
                          /\ UNCHANGED <<e_status, e_result, e_class, e_applied>>
    /\ UNCHANGED <<program, phase, div0, rVars>>

\* expression, any other c (the sentinel included): call inner_expression.
E_expression_inner ==
    /\ E_at("expression", "start")
    /\ Len(e_stack) < StackLimit
    /\ LET w == E_skip_whitespace(program, e_p)
           c == E_peek(program, w.p)
       IN  /\ w.exc = "none"
           /\ c # "("
           /\ ~isdigit(c)
           /\ e_calls' = e_calls + 1
           /\ e_p' = w.p
           /\ e_stack' = Append(SetTop(e_stack, Frame("expression", "inner")),
                                Frame("inner_expression", "start"))
           /\ UNCHANGED <<e_ret, e_status, e_result, e_class, e_applied>>
    /\ UNCHANGED <<program, phase, div0, rVars>>

\* expression after the parenthesised call: skip_whitespace, expect_char(')'),
\* return val.
E_expression_close ==
    /\ E_at("expression", "paren")
    /\ LET w == E_skip_whitespace(program, e_p)
           x == E_expect_char(program, w.p, ")")
       IN  /\ w.exc = "none"
           /\ IF x.exc # "none" THEN E_throw(x.exc, x.p)
              ELSE /\ e_p' = x.p
                   /\ e_stack' = Pop(e_stack)
                   /\ UNCHANGED <<e_ret, e_status, e_result, e_class, e_applied>>
    /\ UNCHANGED <<e_calls, program, phase, div0, rVars>>

\* expression: return inner_expression();
E_expression_return ==
    /\ E_at("expression", "inner")
    /\ e_stack' = Pop(e_stack)
    /\ UNCHANGED <<e_p, e_ret, e_status, e_result, e_class, e_calls, e_applied>>
    /\ UNCHANGED <<program, phase, div0, rVars>>

\* inner_expression: Op op = operation(); then the call of the left expression.
E_inner_expression_operation ==
    /\ E_at("inner_expression", "start")
    /\ Len(e_stack) < StackLimit
    /\ LET o == E_operation(program, e_p)
       IN  IF o.exc # "none" THEN E_throw(o.exc, o.p)
           ELSE /\ e_p' = o.p
                /\ e_stack' = Append(SetTop(e_stack, [Frame("inner_expression", "left")
                                                        EXCEPT !.op = o.val]),
                                     Frame("expression", "start"))
                /\ UNCHANGED <<e_ret, e_status, e_result, e_class, e_applied>>
    /\ UNCHANGED <<e_calls, program, phase, div0, rVars>>

\* inner_expression: left = (returned value); then the call of the right one.
E_inner_expression_left ==
    /\ E_at("inner_expression", "left")
    /\ Len(e_stack) < StackLimit
    /\ e_stack' = Append(SetTop(e_stack, [Top(e_stack) EXCEPT !.pc = "right", !.left = e_ret]),
                         Frame("expression", "start"))
    /\ UNCHANGED <<e_p, e_ret, e_status, e_result, e_class, e_calls, e_applied>>
    /\ UNCHANGED <<program, phase, div0, rVars>>

\* inner_expression: right = (returned value); the switch, divisor not zero.
E_inner_expression_apply ==
    /\ E_at("inner_expression", "right")
    /\ ~(Top(e_stack).op = "Div" /\ e_ret = 0)
    /\ IF Top(e_stack).op \in Op
       THEN /\ e_ret' = E_apply(Top(e_stack).op, Top(e_stack).left, e_ret)
            /\ e_stack' = Pop(e_stack)
            /\ e_applied' = e_applied + 1
            /\ UNCHANGED <<e_p, e_status, e_result, e_class>>
       ELSE /\ E_throw("InvalidOperator", e_p)
    /\ UNCHANGED <<e_calls, program, phase, div0, rVars>>

\* inner_expression: left / right with right == 0: undefined behaviour.
E_inner_expression_div0 ==
    /\ E_at("inner_expression", "right")
    /\ Top(e_stack).op = "Div" /\ e_ret = 0
    /\ \E d \in DivByZero :
          /\ div0 \in {"unobserved", d}
          /\ div0' = d
          /\ IF d = "trap"
             THEN /\ e_status' = "crashed"
                  /\ e_stack' = <<>>
                  /\ phase' = "R"
                  /\ UNCHANGED <<e_ret, e_applied>>
             ELSE /\ e_ret' = IF d = "zero" THEN 0 ELSE -1
                  /\ e_stack' = Pop(e_stack)
                  /\ e_applied' = e_applied + 1
                  /\ UNCHANGED <<e_status, phase>>
    /\ UNCHANGED <<e_p, e_result, e_class, e_calls, program, rVars>>

\* execute: return p.expression();
E_execute_return ==
    /\ E_at("execute", "try")
    /\ e_result' = e_ret
    /\ e_class' = "Ok"
    /\ e_status' = "returned"
    /\ e_stack' = <<>>
    /\ phase' = "R"
    /\ UNCHANGED <<e_p, e_ret, e_calls, e_applied, program, div0, rVars>>

\* A catch block that returns the last value computed before the throw.
E_execute_catch_partial ==
    /\ E_at("execute", "catch")
    /\ e_result' = e_ret
    /\ e_status' = "returned"
    /\ e_stack' = <<>>
    /\ phase' = "R"
    /\ UNCHANGED <<e_p, e_ret, e_class, e_calls, e_applied, program, div0, rVars>>

\* execute: catch (const Error& err) { return 0; }
E_execute_catch ==
    /\ E_at("execute", "catch")
    /\ e_result' = 0
    /\ e_status' = "returned"
    /\ e_stack' = <<>>
    /\ phase' = "R"
    /\ UNCHANGED <<e_p, e_ret, e_class, e_calls, e_applied, program, div0, rVars>>

----------------------------------------------------------------------------
(* ParserWithResults: Result<T> and the leaf routines.  Each routine       *)
(* returns its Result as res, with the cursor p after it.                  *)

\* explicit Result(T ok) and explicit Result(ErrorKind error): one member of
\* the union is live, so a record holds that member alone.
Result_ok(v) == [is_error |-> FALSE, ok |-> v]
Result_error(k) == [is_error |-> TRUE, error |-> k]

RFrame(fn, pc) == [fn |-> fn, pc |-> pc, op |-> "none", left |-> Result_ok(0)]

R_peek(s, p) == IF p = Len(s) THEN NUL ELSE s[p + 1]

\* get_char that hands out the sentinel at the end of the program.
R_get_char_no_eof(s, p) ==
    IF p = Len(s)
    THEN [res |-> Result_ok(NUL), p |-> p]
    ELSE [res |-> Result_ok(s[p + 1]), p |-> p + 1]

R_get_char(s, p) ==
    IF p = Len(s)
    THEN [res |-> Result_error("UnexpectedEOF"), p |-> p]
    ELSE [res |-> Result_ok(s[p + 1]), p |-> p + 1]

\* The Result of get_char is dropped here; only the cursor moves.
RECURSIVE R_skip_whitespace(_, _)
R_skip_whitespace(s, p) ==
    IF iswspace(R_peek(s, p))
    THEN R_skip_whitespace(s, R_get_char(s, p).p)
    ELSE p

RECURSIVE R_number_loop(_, _, _)
R_number_loop(s, p, result) ==
    IF isdigit(R_peek(s, p))
    THEN LET c == R_get_char(s, p)
         IN  IF c.res.is_error THEN [res |-> Result_error(c.res.error), p |-> c.p]
             ELSE R_number_loop(s, c.p, result * 10 + DigitValue(c.res.ok))
    ELSE [res |-> Result_ok(result), p |-> p]

R_number(s, p) == R_number_loop(s, p, 0)

R_operation(s, p) ==
    LET c == R_get_char(s, p)
    IN  IF c.res.is_error THEN [res |-> Result_error(c.res.error), p |-> c.p]
        ELSE CASE c.res.ok = "+" -> [res |-> Result_ok("Add"), p |-> c.p]
               [] c.res.ok = "-" -> [res |-> Result_ok("Sub"), p |-> c.p]
               [] c.res.ok = "*" -> [res |-> Result_ok("Mul"), p |-> c.p]
               [] c.res.ok = "/" -> [res |-> Result_ok("Div"), p |-> c.p]
               [] OTHER -> [res |-> Result_error("InvalidOperator"), p |-> c.p]

\* expect_char that reports the end of the program as InvalidCharacter.
R_expect_char_remapped(s, p, c) ==
    LET x == R_get_char(s, p)
    IN  IF x.res.is_error THEN [res |-> Result_error("InvalidCharacter"), p |-> x.p]
        ELSE IF x.res.ok # c THEN [res |-> Result_error("InvalidCharacter"), p |-> x.p]
        ELSE x

R_expect_char(s, p, c) ==
    LET x == R_get_char(s, p)
    IN  IF x.res.is_error THEN x
        ELSE IF x.res.ok # c THEN [res |-> Result_error("InvalidCharacter"), p |-> x.p]
        ELSE x

\* The switch of inner_expression for a nonzero divisor.
R_apply(op, left, right) ==
    CASE op = "Add" -> Result_ok(left + right)
      [] op = "Sub" -> Result_ok(left - right)
      [] op = "Mul" -> Result_ok(left * right)
      [] op = "Div" -> Result_ok(TruncDiv(left, right))
      [] OTHER -> Result_error("InvalidOperator")

----------------------------------------------------------------------------
(* ParserWithResults: the recursion.                                       *)

R_at(fn, pc) ==
    /\ phase = "R"
    /\ r_status = "running"
    /\ Top(r_stack).fn = fn
    /\ Top(r_stack).pc = pc

\* return of a Result to the caller's frame
R_return(res) ==
    /\ r_ret' = res
    /\ r_stack' = Pop(r_stack)

\* execute: Parser p{program}; Result<int64_t> result = p.expression();
R_execute ==
    /\ phase = "R"
    /\ r_status = "idle"
    /\ r_status' = "running"
    /\ r_p' = 0
    /\ r_stack' = <<RFrame("execute", "call"), RFrame("expression", "start")>>
    /\ UNCHANGED <<r_ret, r_result, r_class, r_calls, r_applied, r_raised>>
    /\ UNCHANGED <<program, phase, div0, eVars>>

\* expression, c == '(': get_char (its Result dropped), skip_whitespace, call
\* expression.
R_expression_paren ==
    /\ R_at("expression", "start")
    /\ Len(r_stack) < StackLimit
    /\ LET w == R_skip_whitespace(program, r_p)
           c == R_peek(program, w)
       IN  /\ c = "("
           /\ r_calls' = r_calls + 1
           /\ r_p' = R_skip_whitespace(program, R_get_char(program, w).p)
           /\ r_stack' = Append(SetTop(r_stack, RFrame("expression", "paren")),
                                RFrame("expression", "start"))
    /\ UNCHANGED <<r_ret, r_status, r_result, r_class, r_applied, r_raised>>
    /\ UNCHANGED <<program, phase, div0, eVars>>

\* expression, c is a digit: return number().
R_expression_number ==
    /\ R_at("expression", "start")
    /\ LET w == R_skip_whitespace(program, r_p)
           c == R_peek(program, w)
       IN  /\ c # "("
           /\ isdigit(c)
           /\ LET n == R_number(program, w)
              IN  /\ r_calls' = r_calls + 1
                  /\ r_p' = n.p
                  /\ R_return(n.res)
                  /\ r_raised' = IF n.res.is_error
                                 THEN Append(r_raised, n.res.error) ELSE r_raised
    /\ UNCHANGED <<r_status, r_result, r_class, r_applied>>
    /\ UNCHANGED <<program, phase, div0, eVars>>

\* expression, any other c (the sentinel included): call inner_expression.
R_expression_inner ==
    /\ R_at("expression", "start")
    /\ Len(r_stack) < StackLimit
    /\ LET w == R_skip_whitespace(program, r_p)
           c == R_peek(program, w)
       IN  /\ c # "("
           /\ ~isdigit(c)
           /\ r_calls' = r_calls + 1
           /\ r_p' = w
           /\ r_stack' = Append(SetTop(r_stack, RFrame("expression", "inner")),
                                RFrame("inner_expression", "start"))
    /\ UNCHANGED <<r_ret, r_status, r_result, r_class, r_applied, r_raised>>
    /\ UNCHANGED <<program, phase, div0, eVars>>

\* expression after the parenthesised call: if (val.is_error) return val;
R_expression_close_error ==
    /\ R_at("expression", "paren")
    /\ r_ret.is_error
    /\ R_return(r_ret)
    /\ UNCHANGED <<r_p, r_status, r_result, r_class, r_calls, r_applied, r_raised>>
    /\ UNCHANGED <<program, phase, div0, eVars>>

\* expression after the parenthesised call, val ok: skip_whitespace,
\* x = expect_char(')'), return Result{x.error} or val.
R_expression_close ==
    /\ R_at("expression", "paren")
    /\ ~r_ret.is_error
    /\ LET x == R_expect_char(program, R_skip_whitespace(program, r_p), ")")
       IN  /\ r_p' = x.p
           /\ IF x.res.is_error
              THEN /\ R_return(Result_error(x.res.error))
                   /\ r_raised' = Append(r_raised, x.res.error)
              ELSE /\ R_return(r_ret)
                   /\ UNCHANGED r_raised
    /\ UNCHANGED <<r_status, r_result, r_class, r_calls, r_applied>>
    /\ UNCHANGED <<program, phase, div0, eVars>>

\* expression: return inner_expression();
R_expression_return ==
    /\ R_at("expression", "inner")
    /\ R_return(r_ret)
    /\ UNCHANGED <<r_p, r_status, r_result, r_class, r_calls, r_applied, r_raised>>
    /\ UNCHANGED <<program, phase, div0, eVars>>

\* inner_expression: op = operation(); if (op.is_error) return Result{op.error};
\* then the call of the left expression.
R_inner_expression_operation ==
    /\ R_at("inner_expression", "start")
    /\ Len(r_stack) < StackLimit
    /\ LET o == R_operation(program, r_p)
       IN  /\ r_p' = o.p
           /\ IF o.res.is_error
              THEN /\ R_return(Result_error(o.res.error))
                   /\ r_raised' = Append(r_raised, o.res.error)
              ELSE /\ r_stack' = Append(SetTop(r_stack, [RFrame("inner_expression", "left")
                                                           EXCEPT !.op = o.res.ok]),
                                        RFrame("expression", "start"))
                   /\ UNCHANGED <<r_ret, r_raised>>
    /\ UNCHANGED <<r_status, r_result, r_class, r_calls, r_applied>>
    /\ UNCHANGED <<program, phase, div0, eVars>>

\* inner_expression without the test of left.is_error: the right expression
\* is parsed all the same.
R_inner_expression_left_error_unchecked ==
    /\ R_at("inner_expression", "left")
    /\ r_ret.is_error
    /\ Len(r_stack) < StackLimit
    /\ r_stack' = Append(SetTop(r_stack, [Top(r_stack) EXCEPT !.pc = "right", !.left = r_ret]),
                         RFrame("expression", "start"))
    /\ UNCHANGED <<r_p, r_ret, r_status, r_result, r_class, r_calls, r_applied, r_raised>>
    /\ UNCHANGED <<program, phase, div0, eVars>>

\* inner_expression: if (left.is_error) return left;
R_inner_expression_left_error ==
    /\ R_at("inner_expression", "left")
    /\ r_ret.is_error
    /\ R_return(r_ret)
    /\ UNCHANGED <<r_p, r_status, r_result, r_class, r_calls, r_applied, r_raised>>
    /\ UNCHANGED <<program, phase, div0, eVars>>

\* inner_expression, left ok: the call of the right expression.
R_inner_expression_left ==
    /\ R_at("inner_expression", "left")
    /\ ~r_ret.is_error
    /\ Len(r_stack) < StackLimit
    /\ r_stack' = Append(SetTop(r_stack, [Top(r_stack) EXCEPT !.pc = "right", !.left = r_ret]),
                         RFrame("expression", "start"))
    /\ UNCHANGED <<r_p, r_ret, r_status, r_result, r_class, r_calls, r_applied, r_raised>>
    /\ UNCHANGED <<program, phase, div0, eVars>>

\* inner_expression: if (right.is_error) return right;
R_inner_expression_right_error ==
    /\ R_at("inner_expression", "right")
    /\ r_ret.is_error
    /\ R_return(r_ret)
    /\ UNCHANGED <<r_p, r_status, r_result, r_class, r_calls, r_applied, r_raised>>
    /\ UNCHANGED <<program, phase, div0, eVars>>

\* inner_expression, right ok: the switch, divisor not zero.
R_inner_expression_apply ==
    /\ R_at("inner_expression", "right")
    /\ ~r_ret.is_error
    /\ ~(Top(r_stack).op = "Div" /\ r_ret.ok = 0)
    /\ LET v == R_apply(Top(r_stack).op, Top(r_stack).left.ok, r_ret.ok)
       IN  /\ R_return(v)
           /\ r_applied' = IF v.is_error THEN r_applied ELSE r_applied + 1
           /\ r_raised' = IF v.is_error THEN Append(r_raised, v.error) ELSE r_raised
    /\ UNCHANGED <<r_p, r_status, r_result, r_class, r_calls>>
    /\ UNCHANGED <<program, phase, div0, eVars>>

\* inner_expression: left.ok / right.ok with right.ok == 0: undefined behaviour.
R_inner_expression_div0 ==
    /\ R_at("inner_expression", "right")
    /\ ~r_ret.is_error
    /\ Top(r_stack).op = "Div" /\ r_ret.ok = 0
    /\ \E d \in DivByZero :
          /\ div0 \in {"unobserved", d}
          /\ div0' = d
          /\ IF d = "trap"
             THEN /\ r_status' = "crashed"
                  /\ r_stack' = <<>>
                  /\ phase' = "done"
                  /\ UNCHANGED <<r_ret, r_applied>>
             ELSE /\ R_return(Result_ok(IF d = "zero" THEN 0 ELSE -1))
                  /\ r_applied' = r_applied + 1
                  /\ UNCHANGED <<r_status, phase>>
    /\ UNCHANGED <<r_p, r_result, r_class, r_calls, r_raised, program, eVars>>

\* execute: if (result.is_error) return 0;
R_execute_error ==
    /\ R_at("execute", "call")
    /\ r_ret.is_error
    /\ r_result' = 0
    /\ r_class' = r_ret.error
    /\ r_status' = "returned"
    /\ r_stack' = <<>>
    /\ phase' = "done"
    /\ UNCHANGED <<r_p, r_ret, r_calls, r_applied, r_raised, program, div0, eVars>>

\* execute: else return result.ok;
R_execute_ok ==
    /\ R_at("execute", "call")
    /\ ~r_ret.is_error
    /\ r_result' = r_ret.ok
    /\ r_class' = "Ok"
    /\ r_status' = "returned"
    /\ r_stack' = <<>>
    /\ phase' = "done"
    /\ UNCHANGED <<r_p, r_ret, r_calls, r_applied, r_raised, program, div0, eVars>>

----------------------------------------------------------------------------
Init ==
    /\ program \in Inputs
    /\ phase = "E"
    /\ div0 = "unobserved"
    /\ e_p = 0
    /\ e_stack = <<>>
    /\ e_ret = 0
    /\ e_status = "idle"
    /\ e_result = 0
    /\ e_class = "none"
    /\ e_calls = 0
    /\ e_applied = 0
    /\ r_p = 0
    /\ r_stack = <<>>
    /\ r_ret = Result_ok(0)
    /\ r_status = "idle"
    /\ r_result = 0
    /\ r_class = "none"
    /\ r_calls = 0
    /\ r_applied = 0
    /\ r_raised = <<>>

Next ==
    \/ E_execute
    \/ E_expression_paren
    \/ E_expression_number
    \/ E_expression_inner
    \/ E_expression_close
    \/ E_expression_return
    \/ E_inner_expression_operation
    \/ E_inner_expression_left
    \/ E_inner_expression_apply
    \/ E_inner_expression_div0
    \/ E_execute_catch
    \/ E_execute_return
    \/ R_execute
    \/ R_expression_paren
    \/ R_expression_number
    \/ R_expression_inner
    \/ R_expression_close_error
    \/ R_expression_close
    \/ R_expression_return
    \/ R_inner_expression_operation
    \/ R_inner_expression_left_error
    \/ R_inner_expression_left
    \/ R_inner_expression_right_error
    \/ R_inner_expression_apply
    \/ R_inner_expression_div0
    \/ R_execute_error
    \/ R_execute_ok

Spec == Init /\ [][Next]_vars

\* Execution never stalls: control returns from every call (single thread).
LiveSpec == Spec /\ WF_vars(Next)

----------------------------------------------------------------------------
(* Reference semantics of the grammar, written from the grammar alone:     *)
(* RefParse(s, i) reads one expression of s starting at index i (1-based). *)
(* wf: an expression of the grammar starts there; err: otherwise, the      *)
(* first failure in depth-first, left-to-right order; defined: no divisor  *)
(* of the expression is zero; val: its value; next: index after it.        *)

RefSpace == {" ", "\t", "\n", "\r", "\f"}
RefDigits == {"0", "1", "2", "3", "4", "5", "6", "7", "8", "9"}
RefOperators == {"+", "-", "*", "/"}

RefDigit(c) ==
    CASE c = "0" -> 0 [] c = "1" -> 1 [] c = "2" -> 2 [] c = "3" -> 3 [] c = "4" -> 4
      [] c = "5" -> 5 [] c = "6" -> 6 [] c = "7" -> 7 [] c = "8" -> 8 [] c = "9" -> 9

RECURSIVE RefSkip(_, _)
RefSkip(s, i) == IF i <= Len(s) /\ s[i] \in RefSpace THEN RefSkip(s, i + 1) ELSE i

\* The quotient q with a = q * b + r, |r| < |b|, and |q * b| <= |a|.
RefQuotient(a, b) ==
    CHOOSE q \in -Abs(a)..Abs(a) : Abs(a - q * b) < Abs(b) /\ Abs(q * b) <= Abs(a)

RefFail(kind) == [wf |-> FALSE, err |-> kind, defined |-> FALSE, val |-> 0, next |-> 0]

RECURSIVE RefNumber(_, _, _)
RefNumber(s, i, acc) ==
    IF i <= Len(s) /\ s[i] \in RefDigits
    THEN RefNumber(s, i + 1, acc * 10 + RefDigit(s[i]))
    ELSE [wf |-> TRUE, err |-> "none", defined |-> TRUE, val |-> acc, next |-> i]

RefApply(c, l, r) ==
    CASE c = "+" -> l + r
      [] c = "-" -> l - r
      [] c = "*" -> l * r
      [] c = "/" -> IF r = 0 THEN 0 ELSE RefQuotient(l, r)

RECURSIVE RefParse(_, _)
RefParse(s, i) ==
    LET j == RefSkip(s, i)
    IN  IF j > Len(s) THEN RefFail("UnexpectedEOF")
        ELSE IF s[j] = "("
        THEN LET inner == RefParse(s, j + 1)
                 k == RefSkip(s, inner.next)
             IN  IF ~inner.wf THEN inner
                 ELSE IF k > Len(s) THEN RefFail("UnexpectedEOF")
                 ELSE IF s[k] # ")" THEN RefFail("InvalidCharacter")
                 ELSE [inner EXCEPT !.next = k + 1]
        ELSE IF s[j] \in RefDigits THEN RefNumber(s, j, 0)
        ELSE IF s[j] \in RefOperators
        THEN LET l == RefParse(s, j + 1)
                 r == RefParse(s, l.next)
             IN  IF ~l.wf THEN l
                 ELSE IF ~r.wf THEN r
                 ELSE [wf |-> TRUE, err |-> "none",
                       defined |-> l.defined /\ r.defined /\ ~(s[j] = "/" /\ r.val = 0),
                       val |-> RefApply(s[j], l.val, r.val), next |-> r.next]
        ELSE RefFail("InvalidOperator")

\* Offset of the first non-whitespace character at or after offset p.
AfterSpace(s, p) == RefSkip(s, p + 1) - 1

Done == phase = "done"

----------------------------------------------------------------------------
\* C1: when both variants have run on the same program they end the same way:
\* the same classification (Ok or the same ErrorKind), the same value from
\* execute, and the same way of ending.
C1_Equivalence ==
    Done => /\ e_status = r_status
            /\ e_class = r_class
            /\ e_result = r_result

C1_Witness ==
    /\ Done
    /\ program = <<"*", " ", "(", "+", " ", "1", " ", "2", ")", " ", "5">>
    /\ e_class = "Ok" /\ r_class = "Ok"
    /\ e_result = 15 /\ r_result = 15

\* C2: a parse that ended in InvalidOperator, InvalidCharacter or UnexpectedEOF
\* makes execute return 0, whatever value was computed before the failure, and
\* execute does return.
C2_FailureReturnsZero ==
    /\ (phase # "E" /\ e_class \in ErrorKind) => (e_status = "returned" /\ e_result = 0)
    /\ (Done /\ r_raised # <<>>) =>
           (r_status = "returned" /\ r_result = 0 /\ r_class \in ErrorKind)

C2_Witness ==
    /\ Done
    /\ e_class = "UnexpectedEOF" /\ r_class = "UnexpectedEOF"
    /\ e_applied > 0 /\ r_applied > 0
    /\ e_ret = 3 /\ e_result = 0 /\ r_result = 0

\* C3: every call of execute ends by returning a value, also when Div is
\* applied to a right operand that is 0.
C3_AlwaysReturns ==
    /\ e_status # "crashed"
    /\ r_status # "crashed"

E_NeedsCharAtEOF ==
    \/ E_at("inner_expression", "start") /\ e_p = Len(program)
    \/ E_at("expression", "paren") /\ AfterSpace(program, e_p) = Len(program)

R_NeedsCharAtEOF ==
    \/ R_at("inner_expression", "start") /\ r_p = Len(program)
    \/ /\ R_at("expression", "paren")
       /\ ~r_ret.is_error
       /\ AfterSpace(program, r_p) = Len(program)

EOFExamples ==
    { <<>>, <<" ">>, <<" ", "\t", "\n">>, <<"+", " ", "3">>,
      <<"(", "+", " ", "1", " ", "2", " ">> }

\* C5: when a character is required (by operation or by expect_char) and the
\* cursor is at end-of-input, the failure is UnexpectedEOF and the cursor stays;
\* execute then returns 0.  The empty input, whitespace alone, "+ 3" and
\* "(+ 1 2 " end this way.
C5_UnexpectedEOF ==
    /\ [][ /\ E_NeedsCharAtEOF =>
                (e_class' = "UnexpectedEOF" /\ e_p' = Len(program))
           /\ R_NeedsCharAtEOF =>
                (/\ r_raised' = <<"UnexpectedEOF">>
                 /\ r_ret' = Result_error("UnexpectedEOF")
                 /\ r_p' = Len(program)) ]_vars
    /\ [](Done =>
            /\ (e_class = "UnexpectedEOF" => (e_status = "returned" /\ e_result = 0))
            /\ (r_class = "UnexpectedEOF" => (r_status = "returned" /\ r_result = 0))
            /\ (program \in EOFExamples =>
                    (e_class = "UnexpectedEOF" /\ r_class = "UnexpectedEOF")))

C5_Witness ==
    /\ Done
    /\ program = <<"(", "+", " ", "1", " ", "2", " ">>
    /\ e_class = "UnexpectedEOF" /\ r_class = "UnexpectedEOF"
    /\ e_result = 0 /\ r_result = 0

\* The character at offset q exists and starts no expression / is no operator.
NotExpressionStart(s, q) ==
    q < Len(s) /\ s[q + 1] \notin ({"("} \cup RefDigits \cup RefOperators)

NotOperator(s, q) == q < Len(s) /\ s[q + 1] \notin RefOperators

\* C6: an expression that starts (after whitespace) with a character that is
\* not '(' , a digit or an operator goes to operation, which fails with
\* InvalidOperator; InvalidOperator arises there alone, before an operand of
\* that operator is parsed.
C6_InvalidOperator ==
    /\ [][ /\ (E_at("expression", "start")
                 /\ NotExpressionStart(program, AfterSpace(program, e_p))) =>
                (/\ Top(e_stack').fn = "inner_expression"
                 /\ Top(e_stack').pc = "start"
                 /\ e_p' = AfterSpace(program, e_p))
           /\ (E_at("inner_expression", "start") /\ NotOperator(program, e_p)) =>
                e_class' = "InvalidOperator"
           /\ (e_class # "InvalidOperator" /\ e_class' = "InvalidOperator") =>
                E_at("inner_expression", "start")
           /\ (R_at("expression", "start")
                 /\ NotExpressionStart(program, AfterSpace(program, r_p))) =>
                (/\ Top(r_stack').fn = "inner_expression"
                 /\ Top(r_stack').pc = "start"
                 /\ r_p' = AfterSpace(program, r_p))
           /\ (R_at("inner_expression", "start") /\ NotOperator(program, r_p)) =>
                (/\ r_raised' = <<"InvalidOperator">>
                 /\ r_ret' = Result_error("InvalidOperator"))
           /\ (r_raised' # r_raised /\ r_raised'[Len(r_raised')] = "InvalidOperator") =>
                R_at("inner_expression", "start") ]_vars
    /\ [](Done =>
            /\ (program = <<"&", " ", "1", " ", "2">> =>
                    (e_class = "InvalidOperator" /\ r_class = "InvalidOperator"))
            /\ (~RefParse(program, 1).wf /\ RefParse(program, 1).err = "InvalidOperator"
                  /\ e_status = "returned" /\ r_status = "returned") =>
                    (e_class = "InvalidOperator" /\ r_class = "InvalidOperator"))

C6_Witness ==
    /\ Done
    /\ program = <<"+", " ", "1", " ", "x">>
    /\ e_class = "InvalidOperator" /\ r_class = "InvalidOperator"

\* C7: at expect_char(')') after a parenthesised expression that succeeded:
\* end-of-input gives UnexpectedEOF, a character other than ')' gives
\* InvalidCharacter, ')' is consumed with no failure; InvalidCharacter arises
\* there alone.
C7_InvalidCharacter ==
    [][ /\ E_at("expression", "paren") =>
             LET q == AfterSpace(program, e_p)
             IN  IF q = Len(program) THEN e_class' = "UnexpectedEOF"
                 ELSE IF program[q + 1] # ")" THEN e_class' = "InvalidCharacter"
                 ELSE e_class' = "none" /\ e_p' = q + 1
        /\ (e_class # "InvalidCharacter" /\ e_class' = "InvalidCharacter") =>
             (/\ E_at("expression", "paren")
              /\ AfterSpace(program, e_p) < Len(program))
        /\ (R_at("expression", "paren") /\ ~r_ret.is_error) =>
             LET q == AfterSpace(program, r_p)
             IN  IF q = Len(program) THEN r_raised' = <<"UnexpectedEOF">>
                 ELSE IF program[q + 1] # ")" THEN r_raised' = <<"InvalidCharacter">>
                 ELSE r_raised' = <<>> /\ r_p' = q + 1 /\ r_ret' = r_ret
        /\ (r_raised' # r_raised /\ r_raised'[Len(r_raised')] = "InvalidCharacter") =>
             (/\ R_at("expression", "paren")
              /\ ~r_ret.is_error
              /\ AfterSpace(program, r_p) < Len(program)) ]_vars

C7_Witness ==
    /\ Done
    /\ program = <<"(", "1", " ", "2", ")">>
    /\ e_class = "InvalidCharacter" /\ r_class = "InvalidCharacter"

\* C8: after the first failure nothing more is parsed: the cursor stays, no
\* expression is entered, no operator is applied, and the ErrorKind that
\* execute sees is the one raised first; it is the first failure of the
\* reference reading of the program.
C8_FirstFailure ==
    /\ [][ /\ e_class \in ErrorKind =>
                (/\ e_p' = e_p
                 /\ e_calls' = e_calls
                 /\ e_applied' = e_applied
                 /\ e_class' = e_class)
           /\ r_raised # <<>> =>
                (/\ r_p' = r_p
                 /\ r_calls' = r_calls
                 /\ r_applied' = r_applied
                 /\ r_raised' = r_raised
                 /\ r_ret'.is_error /\ r_ret'.error = r_raised[1]
                 /\ r_class' \in {"none", r_raised[1]}) ]_vars
    /\ [](Done =>
            LET ref == RefParse(program, 1)
            IN  /\ (e_status = "returned" /\ ~ref.wf) => e_class = ref.err
                /\ (r_status = "returned" /\ ~ref.wf) => r_class = ref.err)

C8_Witness ==
    /\ phase = "R"
    /\ program = <<"+", " ", "(", "*", " ", "2", " ", "3", ")", " ", "(", "-", " ", "4">>
    /\ r_raised = <<"UnexpectedEOF">>
    /\ Len(r_stack) > 3
    /\ r_applied = 1
    /\ e_class = "UnexpectedEOF"

\* C9: the cursor never moves backwards and never passes the end of the
\* program; at the end peek gives the sentinel, get_char fails with
\* UnexpectedEOF and leaves the cursor, and skip_whitespace stops without
\* failing.
C9_Cursor ==
    /\ [][e_p' >= e_p /\ r_p' >= r_p]_vars
    /\ [](/\ e_p \in 0..Len(program)
          /\ r_p \in 0..Len(program)
          /\ E_peek(program, Len(program)) = NUL
          /\ R_peek(program, Len(program)) = NUL
          /\ E_get_char(program, Len(program)) = [exc |-> "UnexpectedEOF", p |-> Len(program)]
          /\ R_get_char(program, Len(program)) =
                [res |-> Result_error("UnexpectedEOF"), p |-> Len(program)]
          /\ E_skip_whitespace(program, e_p).exc = "none"
          /\ E_skip_whitespace(program, e_p).p \in e_p..Len(program)
          /\ R_skip_whitespace(program, r_p) \in r_p..Len(program))

C9_Witness ==
    /\ Done
    /\ program = <<" ", "\t", "\n">>
    /\ e_p = 3 /\ r_p = 3
    /\ e_class = "UnexpectedEOF" /\ r_class = "UnexpectedEOF"

\* C10: every run of execute ends, and the calls of expression number at most
\* one more than the characters consumed so far, hence at most Len(program) + 1.
C10_Terminates ==
    /\ [](/\ e_calls <= e_p + 1 /\ e_calls <= Len(program) + 1
          /\ r_calls <= r_p + 1 /\ r_calls <= Len(program) + 1)
    /\ <>Done

C10_Witness ==
    /\ Done
    /\ Len(program) = 3
    /\ e_calls = Len(program) + 1
    /\ r_calls = Len(program) + 1
====
